---- MODULE Spec2Model ----
(***************************************************************************)
(* MetaKit: the tuple engine (lib/tuple.h) over the type-sequence algebra  *)
(* (lib/type_list.h) and the forwarding helpers (lib/helper_.h).           *)
(*                                                                         *)
(* Template instantiation is modelled as evaluation of operators over type *)
(* descriptors; a request the compiler rejects evaluates to a result with  *)
(* ok = FALSE.  Run-time objects are the tuples held in named slots.       *)
(***************************************************************************)
EXTENDS Integers, Sequences, FiniteSets, TLC

\* ------------------------------------------------------------------ bounds
MaxLen == 3          \* longest argument list of a constructed tuple
MaxVal == 1          \* number of values an assignment may store
MaxCat == 2          \* most operands of one tuple_cat call
MaxView == 1         \* most arguments of a forwarding view the caller keeps
MaxSeq == 3          \* longest type sequence built
MaxFwd == 2          \* most arguments of one detail::forward_as_tuple call
MaxCount == 1        \* most constructions of one kind counted on a lone counter
MaxSrc == 1          \* longest tuple a forwarding view takes its arguments from

\* -------------------------------------------------------- program constants
metakit_tuple == 1   \* index of the counter observing metakit::tuple
std_tuple == 2       \* index of the counter observing std::tuple

\* argument k of a construction denotes the value k; an assignment stores one
\* of the values below, which no argument denotes
Values == 11..(10 + MaxVal)
Slots == {"A", "B"}

\* the entries of type sequences (type_list.h:320) and the variadic templates
\* that hold them
Types == {"int", "double", "string"}
Templates == {"type_list", "tuple"}

\* test::testing::Configuration: the category of an expression
Configuration == {"non_const_lvalue", "const_lvalue", "non_const_rvalue", "const_rvalue"}

\* ------------------------------------------------------------ helper_.h
\* A type as far as the library looks at it: its reference kind and constness.
\* ref = "val" is an object type, "lref" is T&, "rref" is T&&.
Ty(ref, const) == [ref |-> ref, const |-> const]

\* the type of an expression of a category, as decltype((e)) would give it
ExprType(cfg) ==
    CASE cfg = "non_const_lvalue" -> Ty("lref", FALSE)
      [] cfg = "const_lvalue"     -> Ty("lref", TRUE)
      [] cfg = "non_const_rvalue" -> Ty("rref", FALSE)
      [] cfg = "const_rvalue"     -> Ty("rref", TRUE)

\* the category of an expression of reference type t
ExprCfg(t) ==
    CASE t.ref = "lref" /\ ~t.const -> "non_const_lvalue"
      [] t.ref = "lref" /\ t.const  -> "const_lvalue"
      [] t.ref # "lref" /\ ~t.const -> "non_const_rvalue"
      [] t.ref # "lref" /\ t.const  -> "const_rvalue"

\* deduction of T from a forwarding parameter T&& bound to an expression:
\* an lvalue deduces T = X&, an rvalue deduces T = X
Deduce(cfg) ==
    LET e == ExprType(cfg)
    IN  IF e.ref = "lref" THEN Ty("lref", e.const) ELSE Ty("val", e.const)

is_lvalue_reference_v(t) == t.ref = "lref"

is_rvalue_reference_v(t) == t.ref = "rref"

\* is_const_v<remove_refernce_t<T>> as get_impl uses it
is_const_v(t) == t.const

\* reference collapsing of  t &  and  t &&
AddLRef(t) == Ty("lref", t.const)

AddRRef(t) == IF t.ref = "lref" THEN Ty("lref", t.const) ELSE Ty("rref", t.const)

\* const applied to a type: ignored when the type is a reference
AddConst(t) == IF t.ref = "val" THEN Ty("val", TRUE) ELSE t

\* a forward that returns its argument as the lvalue it is named by
forward_lvalue(t) == ExprCfg(AddLRef(t))

\* forward<T>(x): static_cast<T&&>(x)
forward(t) == ExprCfg(AddRRef(t))

\* move(x): static_cast<remove_refernce_t<T>&&>(x)
move(cfg) == ExprCfg(Ty("rref", ExprType(cfg).const))

\* std::unwrap_ref_decay_t<T> of a deduced argument type: a plain object type
unwrap_ref_decay_t(t) == Ty("val", FALSE)

\* ------------------------------------------------------------ type_list.h
\* a type sequence: the variadic template it instantiates and its entries
List(tmpl, types) == [tmpl |-> tmpl, types |-> types]

\* a type-level result: ok = FALSE is a request rejected at build time
Rejected == [ok |-> FALSE]

\* a front whose primary template is defined and yields void
front_or_void(L) ==
    [ok |-> TRUE, type |-> IF L.types = <<>> THEN "void" ELSE Head(L.types)]

\* front<LIST<T0, T1toN...>>: T0; the primary template is declared only
front(L) ==
    IF L.types = <<>> THEN Rejected ELSE [ok |-> TRUE, type |-> Head(L.types)]

\* pop_front<LIST<T0, T1toN...>>: type_list<T1toN...>; the primary template is
\* declared only
pop_front(L) ==
    IF L.types = <<>> THEN Rejected
    ELSE [ok |-> TRUE, type |-> List("type_list", Tail(L.types))]

\* back<LIST>: the specialisation back<LIST<T0>> is T0; the primary template is
\* back<pop_front_t<LIST>>::type
RECURSIVE back(_)
back(L) ==
    IF Len(L.types) = 1 THEN [ok |-> TRUE, type |-> L.types[1]]
    ELSE IF pop_front(L).ok THEN back(pop_front(L).type) ELSE Rejected

\* push_back<LIST<T0toN...>, T>: LIST<T0toN..., T>
push_back(L, T) == [ok |-> TRUE, type |-> List(L.tmpl, Append(L.types, T))]

\* a pop_back that accumulates at the front of RET_LIST
RECURSIVE pop_back_push_front(_, _)
pop_back_push_front(L, RET_LIST) ==
    IF L.types = <<>> THEN Rejected
    ELSE IF Len(L.types) = 1 THEN [ok |-> TRUE, type |-> RET_LIST]
    ELSE pop_back_push_front(List(L.tmpl, Tail(L.types)),
                             List(RET_LIST.tmpl, << Head(L.types) >> \o RET_LIST.types))

\* pop_back<LIST, RET_LIST>: undefined for LIST<>; RET_LIST for LIST<T0>;
\* pop_back<LIST<T1, T2toN...>, push_back_t<RET_LIST, T0>> otherwise
RECURSIVE pop_back(_, _)
pop_back(L, RET_LIST) ==
    IF L.types = <<>> THEN Rejected
    ELSE IF Len(L.types) = 1 THEN [ok |-> TRUE, type |-> RET_LIST]
    ELSE pop_back(List(L.tmpl, Tail(L.types)), push_back(RET_LIST, Head(L.types)).type)

\* pop_back_t<LIST>: RET_LIST defaults to type_list<>
pop_back_t(L) == pop_back(L, List("type_list", <<>>))

\* an at whose index-0 specialisation skips one more entry
RECURSIVE at_skip_one(_, _)
at_skip_one(L, index) ==
    IF index = 0
    THEN (IF pop_front(L).ok THEN front(pop_front(L).type) ELSE Rejected)
    ELSE IF pop_front(L).ok THEN at_skip_one(pop_front(L).type, index - 1) ELSE Rejected

\* at<LIST, index>: at<LIST, 0> is front_t<LIST>; the primary template is
\* at<pop_front_t<LIST>, index - 1>::type
RECURSIVE at(_, _)
at(L, index) ==
    IF index = 0 THEN front(L)
    ELSE IF pop_front(L).ok THEN at(pop_front(L).type, index - 1) ELSE Rejected

\* if_<condition, THEN, ELSE>::type
if_(condition, THEN_, ELSE_) == IF condition THEN THEN_ ELSE ELSE_

\* has_type<T>: the wrapper whose member type is T
has_type(T) == [ok |-> TRUE, type |-> T]

\* a candidate written as an argument of if_: the type it names, whether it
\* names a type at all (typename X::type of an X without that member does
\* not) and whether the type it names is defined
Candidate(type, named, defined) == [type |-> type, named |-> named, defined |-> defined]

NoCandidate == Candidate("", FALSE, FALSE)

\* the candidates if_ is given: two defined types, a class that is declared
\* only, and a member type that does not exist
Candidates ==
    {Candidate("int", TRUE, TRUE), Candidate("bool", TRUE, TRUE),
     Candidate("Incomplete", TRUE, FALSE), NoCandidate}

\* typename if_<condition, THEN, ELSE>::type.  THEN and ELSE are type
\* parameters: both arguments must name a type before a specialisation is
\* chosen, and neither specialisation needs its arguments defined.
if_type(condition, THEN_, ELSE_) ==
    IF THEN_.named /\ ELSE_.named
    THEN has_type(if_(condition, THEN_, ELSE_).type)
    ELSE Rejected

\* a predicate template: its name and, for is_same_pred<T1>::predicate, T1
Pred(name, arg) == [name |-> name, arg |-> arg]

NoPred == Pred("", "")

\* the predicates any is asked about
Predicates == {Pred("is_integral", ""), Pred("defined_for_int", "")}

\* is_same_pred<T1>::template predicate
is_same_pred(T1) == Pred("is_same_pred", T1)

\* PREDICATE<T>::value.  std::is_integral holds of int, std::is_class of the
\* types that are neither int nor double; defined_for_int is a
\* predicate whose primary template is declared only and which is specialised
\* (true) for int; is_same_pred<T1>::predicate<T2> names the value
\* is_same<T1, T2>::value as its base class, which is no type.
PREDICATE_value(P, T) ==
    CASE P.name = "is_integral" -> [ok |-> TRUE, value |-> T = "int"]
      [] P.name = "is_class" -> [ok |-> TRUE, value |-> T \notin {"int", "double"}]
      [] P.name = "defined_for_int" -> [ok |-> T = "int", value |-> T = "int"]
      [] P.name = "is_same_pred" -> [ok |-> FALSE, value |-> FALSE]

\* an any whose empty-sequence specialisation is true_type
RECURSIVE any_empty_true(_, _)
any_empty_true(P, L) ==
    IF L.types = <<>> THEN [ok |-> TRUE, value |-> TRUE, evals |-> <<>>]
    ELSE [ok |-> PREDICATE_value(P, front(L).type).ok
                  /\ any_empty_true(P, pop_front(L).type).ok,
          value |-> if_(PREDICATE_value(P, front(L).type).value, TRUE,
                        any_empty_true(P, pop_front(L).type).value),
          evals |-> << front(L).type >> \o any_empty_true(P, pop_front(L).type).evals]

\* any<PREDICATE, LIST>: false_type for LIST<>; otherwise
\* if_<PREDICATE<front_t<LIST>>::value, true_type,
\*     typename any<PREDICATE, pop_front_t<LIST>>::type>::type.
\* Both arguments of if_ are instantiated before if_ selects: evals lists the
\* entries PREDICATE was instantiated with, and ok is FALSE when one of the
\* instantiations is ill-formed.
RECURSIVE any(_, _)
any(P, L) ==
    IF L.types = <<>> THEN [ok |-> TRUE, value |-> FALSE, evals |-> <<>>]
    ELSE [ok |-> PREDICATE_value(P, front(L).type).ok /\ any(P, pop_front(L).type).ok,
          value |-> if_(PREDICATE_value(P, front(L).type).value, TRUE,
                        any(P, pop_front(L).type).value),
          evals |-> << front(L).type >> \o any(P, pop_front(L).type).evals]

\* contains_type_v<search, list>:
\*     any<is_same_pred<search>::template predicate, list>::value
contains_type_v(search, list) == any(is_same_pred(search), list)

\* ------------------------------------------------------------ objects
\* An element slot of a tuple level: an owned value, or an alias of the
\* element at level src[2] of the tuple in slot src[1].
Own(v) == [own |-> TRUE, v |-> v, src |-> <<>>]

Alias(slot, level) == [own |-> FALSE, v |-> 0, src |-> <<slot, level>>]

NoObj == [live |-> FALSE, types |-> <<>>, data |-> <<>>]

Obj(types, data) == [live |-> TRUE, types |-> types, data |-> data]

\* test::CopyStats
CopyStats(d, c, m) == [n_default_constructs |-> d, n_copies |-> c, n_moves |-> m]

ZeroStats == CopyStats(0, 0, 0)

\* an argument expression: its category, the value it denotes and, when it
\* denotes an element of a named tuple, that element's place
Arg(cfg, v, src) == [cfg |-> cfg, v |-> v, src |-> src]

\* an argument expression that is itself a tuple, one that owns its elements
TupleArg(cfg, obj) == [cfg |-> cfg, v |-> 0, src |-> <<>>, tuple |-> obj]

IsTupleArg(a) == "tuple" \in DOMAIN a

\* a construction event of one level: what was done for position pos
Event(ev, pos) == [ev |-> ev, pos |-> pos]

\* ------------------------------------------------------------ tuple.h
\* data(forward<T>(e1)): initialise the member of declared type decl from an
\* expression of category cfg.  An object member is copy- or move-constructed;
\* a reference member is bound, which constructs nothing.
init_data(decl, arg, cfg, pos) ==
    IF decl.ref = "val"
    THEN [ok |-> TRUE, elem |-> Own(arg.v),
          log |-> << Event(IF cfg = "non_const_rvalue" THEN "move" ELSE "copy", pos) >>]
    ELSE LET e == ExprType(cfg)
             binds == /\ arg.src # <<>>
                      /\ (e.const => decl.const)
                      /\ (decl.ref = "lref" => (e.ref = "lref" \/ decl.const))
                      /\ (decl.ref = "rref" => e.ref = "rref")
         IN  [ok |-> binds, elem |-> Alias(arg.src[1], arg.src[2]),
              log |-> << Event("bind", pos) >>]

\* the constructor of tuple<types...> that overload resolution selects for an
\* argument list.  tuple<> (tuple.h:20) has its default constructor and the
\* implicit copy and move constructors, which bind to any one tuple argument
\* (every tuple derives from tuple<>).  tuple<element1, element2...> has the
\* constructor template of tuple.h:38 and the implicit copy and move
\* constructors; these are selected for a const lvalue and for a mutable
\* temporary of the same tuple type, the template being the better match for
\* every other argument list.
tuple_overload(types, args) ==
    IF types = <<>>
    THEN IF args = <<>> THEN "default"
         ELSE IF Len(args) = 1 /\ IsTupleArg(args[1]) THEN "copy"
         ELSE "none"
    ELSE IF args = <<>> THEN "none"
    ELSE IF /\ Len(args) = 1
            /\ IsTupleArg(args[1])
            /\ args[1].tuple.types = types
            /\ args[1].cfg \in {"const_lvalue", "non_const_rvalue"}
    THEN "copy"
    ELSE "template"

\* the implicit copy or move constructor of tuple<types...>: memberwise, the
\* base sub-aggregate before the member data
RECURSIVE tuple_copy(_, _, _)
tuple_copy(data, ev, pos) ==
    IF data = <<>> THEN <<>>
    ELSE tuple_copy(Tail(data), ev, pos + 1) \o << Event(ev, pos) >>

\* the aggregate of a base sub-aggregate and the member data
tuple_level(base, d) ==
    [ok |-> base.ok /\ d.ok, data |-> << d.elem >> \o base.data, log |-> base.log \o d.log]

\* the arguments rest as the constructor template passes them on:
\* forward<Ts&&>(rest)...
forward_rest(args) ==
    [k \in 1..(Len(args) - 1) |-> [args[k + 1] EXCEPT !.cfg = forward(AddRRef(Deduce(@)))]]

\* data(forward<T>(e1)) for the first argument: an element is not constructible
\* from a tuple
init_first(decl, arg, pos) ==
    IF IsTupleArg(arg) THEN [ok |-> FALSE, elem |-> Own(0), log |-> <<>>]
    ELSE init_data(decl, arg, forward(Deduce(arg.cfg)), pos)

\* tuple<element1, element2...>::tuple(T&& e1, Ts&&... rest)
\*     : tuple<element2...>(forward<Ts&&>(rest)...), data(forward<T>(e1))
\* The base sub-aggregate is initialised before the member.
RECURSIVE tuple_ctor(_, _, _)
tuple_ctor(types, args, pos) ==
    CASE tuple_overload(types, args) = "none" ->
            [ok |-> FALSE, data |-> <<>>, log |-> <<>>]
      [] tuple_overload(types, args) = "default" ->
            [ok |-> TRUE, data |-> <<>>, log |-> <<>>]
      [] tuple_overload(types, args) = "copy" ->
            IF types = <<>> THEN [ok |-> TRUE, data |-> <<>>, log |-> <<>>]
            ELSE [ok |-> TRUE, data |-> args[1].tuple.data,
                  log |-> tuple_copy(args[1].tuple.data,
                                     IF args[1].cfg = "non_const_rvalue" THEN "move"
                                     ELSE "copy", pos)]
      [] tuple_overload(types, args) = "template" ->
            tuple_level(tuple_ctor(Tail(types), forward_rest(args), pos + 1),
                        init_first(Head(types), Head(args), pos))

\* the deduction guide  tuple(T e1, Ts... e2) -> tuple<unwrap_ref_decay_t<T>, ...>
tuple_guide(args) == [k \in 1..Len(args) |-> unwrap_ref_decay_t(Deduce(args[k].cfg))]

\* tuple t{args...}
tuple(args) ==
    LET types == tuple_guide(args)
        c == tuple_ctor(types, args, 0)
    IN  [ok |-> c.ok, obj |-> Obj(types, c.data), log |-> c.log]

\* make_tuple(elem...):
\*     tuple<unwrap_ref_decay_t<elements>...>{forward<elements>(elem)...}
make_tuple(args) ==
    LET types == [k \in 1..Len(args) |-> unwrap_ref_decay_t(Deduce(args[k].cfg))]
        fwd == [k \in 1..Len(args) |-> [args[k] EXCEPT !.cfg = forward(Deduce(@))]]
        c == tuple_ctor(types, fwd, 0)
    IN  [ok |-> c.ok, obj |-> Obj(types, c.data), log |-> c.log]

\* detail::tuple_size<tuple<elements...>>: sizeof...(elements); the primary
\* template is undefined, so any other argument is rejected
tuple_size(L) ==
    IF L.tmpl = "tuple" THEN [ok |-> TRUE, value |-> Len(L.types)] ELSE Rejected

\* a tuple_element that walks the tuple with pop_front_t, as get_impl does
RECURSIVE tuple_element_pop_front(_, _)
tuple_element_pop_front(i, Tuple) ==
    IF Tuple.tmpl # "tuple" \/ Tuple.types = <<>> THEN Rejected
    ELSE IF i = 0 THEN has_type(Head(Tuple.types))
    ELSE tuple_element_pop_front(i - 1, pop_front(Tuple).type)

\* tuple_element<i, Tuple>: the primary template is declared only;
\* tuple_element<0, tuple<Head, Tail...>> is Head and
\* tuple_element<i, tuple<Head, Tail...>> is tuple_element<i - 1, tuple<Tail...>>
RECURSIVE tuple_element(_, _)
tuple_element(i, Tuple) ==
    IF Tuple.tmpl # "tuple" \/ Tuple.types = <<>> THEN Rejected
    ELSE IF i = 0 THEN has_type(Head(Tuple.types))
    ELSE tuple_element(i - 1, List("tuple", Tail(Tuple.types)))

\* the type of a tuple object
TypeOf(obj) == List("tuple", obj.types)

\* depth of the recursive aggregate: one level per data member
RECURSIVE Depth(_)
Depth(data) == IF data = <<>> THEN 0 ELSE 1 + Depth(Tail(data))

\* std::tuple t{args...} / std::make_tuple(args...): the reference composition,
\* one construction per argument, a move exactly for a mutable temporary
std_tuple_log(args) ==
    [k \in 1..Len(args) |->
        Event(IF args[k].cfg = "non_const_rvalue" THEN "move" ELSE "copy", k - 1)]

\* counters after the events of a log are added to them
RECURSIVE Count(_, _)
Count(st, log) ==
    IF log = <<>> THEN st
    ELSE LET e == Head(log)
             st1 == CASE e.ev = "copy" -> [st EXCEPT !.n_copies = @ + 1]
                      [] e.ev = "move" -> [st EXCEPT !.n_moves = @ + 1]
                      [] e.ev = "default" -> [st EXCEPT !.n_default_constructs = @ + 1]
                      [] OTHER -> st
         IN  Count(st1, Tail(log))

\* number of element constructions (copies plus moves) in a log
Constructions(log) == Count(ZeroStats, log).n_copies + Count(ZeroStats, log).n_moves

\* a reset that clears the copies and the moves only
reset_keeps_defaults(st) ==
    [old |-> st, stats |-> CopyStats(st.n_default_constructs, 0, 0)]

\* IndexedCopyCounter<i>::reset()
reset(st) == [old |-> st, stats |-> ZeroStats]

\* make_copy_counter<i>(): the returned counter is built by the tagged
\* constructor, whose body is reset() and which counts nothing; the prvalue is
\* returned without a copy or a move
make_copy_counter(st) == reset(st).stats

\* a destructor that destroys the base sub-aggregate before the member
RECURSIVE tuple_dtor_base_first(_, _)
tuple_dtor_base_first(data, pos) ==
    IF data = <<>> THEN <<>>
    ELSE tuple_dtor_base_first(Tail(data), pos + 1)
         \o (IF Head(data).own THEN << Event("dtor", pos) >> ELSE <<>>)

\* ~tuple<element1, element2...>(): the member data is destroyed, then the base
\* sub-aggregate; a reference member destroys nothing
RECURSIVE tuple_dtor(_, _)
tuple_dtor(data, pos) ==
    IF data = <<>> THEN <<>>
    ELSE (IF Head(data).own THEN << Event("dtor", pos) >> ELSE <<>>)
         \o tuple_dtor(Tail(data), pos + 1)

\* detail::get_impl<i, Tuple> : get_impl<i - 1, pop_front_t<Tuple>>: the
\* aggregate type whose get_impl<0, .> specialisation serves index i
RECURSIVE get_impl(_, _)
get_impl(i, Tuple) ==
    IF i = 0 THEN [ok |-> TRUE, type |-> Tuple]
    ELSE LET p == pop_front(Tuple)
         IN  IF p.ok THEN get_impl(i - 1, p.type) ELSE Rejected

\* static_cast<cv Tuple ref>(t) for a tuple t of type From: Tuple must be the
\* type of t or one of its base sub-aggregates
is_base_of(Tuple, From) ==
    /\ Tuple.tmpl = "tuple"
    /\ From.tmpl = "tuple"
    /\ Len(Tuple.types) <= Len(From.types)
    /\ Tuple.types = SubSeq(From.types, Len(From.types) - Len(Tuple.types) + 1, Len(From.types))

\* a get that casts to data_t& and data_t&& whatever the constness of T
get_cast_no_const(data_t, T) ==
    IF is_lvalue_reference_v(T) THEN AddLRef(data_t) ELSE AddRRef(data_t)

\* the result type of get_impl<0, Tuple>::get(T&& t): one of the four casts
\* of data_t = front_t<Tuple>, chosen by T
get_cast(data_t, T) ==
    LET is_lval == is_lvalue_reference_v(T)
        is_constant == is_const_v(T)
    IN  CASE is_lval /\ is_constant   -> AddLRef(AddConst(data_t))
          [] is_lval /\ ~is_constant  -> AddLRef(data_t)
          [] ~is_lval /\ is_constant  -> AddRRef(AddConst(data_t))
          [] ~is_lval /\ ~is_constant -> AddRRef(data_t)

\* get_impl<0, Tuple>::get(T&& t) on a tuple of type From: the level whose data
\* member is taken, the type returned and the levels the tuple was cast to
get_impl_0(Tuple, From, T) ==
    LET data_t == front(Tuple)
    IN  IF data_t.ok /\ is_base_of(Tuple, From)
        THEN [ok |-> TRUE,
              level |-> Len(From.types) - Len(Tuple.types),
              type |-> get_cast(data_t.type, T),
              casts |-> << Len(From.types) - Len(Tuple.types) >>]
        ELSE [ok |-> FALSE, level |-> 0, type |-> Ty("val", FALSE), casts |-> <<>>]

\* a get that takes its index modulo the size of the tuple
get_modulo(i, obj, cfg) ==
    LET From == TypeOf(obj)
        impl == get_impl(IF obj.types = <<>> THEN i ELSE i % Len(obj.types), From)
    IN  IF impl.ok THEN get_impl_0(impl.type, From, Deduce(forward(Deduce(cfg))))
        ELSE [ok |-> FALSE, level |-> 0, type |-> Ty("val", FALSE), casts |-> <<>>]

\* get<i>(tuple): detail::get_impl<i, remove_cvrf_t<Tuple>>::get(forward<Tuple>(tuple))
get(i, obj, cfg) ==
    LET From == TypeOf(obj)
        impl == get_impl(i, From)
    IN  IF impl.ok THEN get_impl_0(impl.type, From, Deduce(forward(Deduce(cfg))))
        ELSE [ok |-> FALSE, level |-> 0, type |-> Ty("val", FALSE), casts |-> <<>>]

\* the four access outcomes of the AccessEngine
AccessKind(t) ==
    CASE t.ref = "lref" /\ ~t.const -> "mutable_alias"
      [] t.ref = "lref" /\ t.const  -> "immutable_alias"
      [] t.ref = "rref" /\ ~t.const -> "movable_handle"
      [] t.ref = "rref" /\ t.const  -> "immutable_handle"
      [] OTHER -> "value"

\* the argument lists of exactly n arguments, argument k denoting the value k,
\* each argument in one of the categories of cfgs
RECURSIVE ArgsOfLen(_, _)
ArgsOfLen(n, cfgs) ==
    IF n = 0 THEN { <<>> }
    ELSE { a \o << Arg(c, n, <<>>) >> : a \in ArgsOfLen(n - 1, cfgs), c \in cfgs }

ArgLists(n, cfgs) == UNION { ArgsOfLen(k, cfgs) : k \in 0..n }

VARIABLES
    tup,      \* the named tuples: slot -> object
    view,     \* a forwarding view kept by the caller (detail::forward_as_tuple)
    result,   \* the tuple returned by the last tuple_cat
    stats,    \* IndexedCopyCounter<i>::stats, for i in {metakit_tuple, std_tuple}
    seq,      \* the type sequence a client of type_list.h has built
    last      \* the last request and what it produced

vars == <<tup, view, result, stats, seq, last>>

\* the shape of the record of a request
Request(op) ==
    [op |-> op, ok |-> TRUE, target |-> "", args |-> <<>>, i |-> 0, cfg |-> "",
     log |-> <<>>, before |-> ZeroStats, level |-> 0, type |-> Ty("val", FALSE),
     value |-> 0, casts |-> <<>>, pre |-> NoObj,
     list |-> List("type_list", <<>>), rlist |-> List("type_list", <<>>),
     rtype |-> "", pred |-> NoPred, evals |-> <<>>, holds |-> FALSE,
     func |-> "", calls |-> <<>>,
     cond |-> FALSE, then_ |-> NoCandidate, else_ |-> NoCandidate]

ObjOf(t) == IF t \in Slots THEN tup[t] ELSE IF t = "view" THEN view ELSE result

\* a write that lands one level below the level accessed
Deref_next_level(slot, level, e) == IF e.own THEN <<slot, level + 1>> ELSE e.src

\* the element a data member denotes: itself, or the element it aliases
Deref(slot, level, e) == IF e.own THEN <<slot, level>> ELSE e.src

ValueOf(e) == IF e.own THEN e.v ELSE tup[e.src[1]].data[e.src[2] + 1].v

\* the expression get<i>(t) as an argument of a further call
get_arg(obj, slot, g) ==
    LET e == obj.data[g.level + 1]
    IN  Arg(ExprCfg(g.type), ValueOf(e), Deref(slot, g.level, e))

\* a forward_as_tuple that returns tuple<unwrap_ref_decay_t<T>...>
forward_as_tuple_decayed(args) ==
    LET types == [k \in 1..Len(args) |-> unwrap_ref_decay_t(Deduce(args[k].cfg))]
        fwd == [k \in 1..Len(args) |-> [args[k] EXCEPT !.cfg = forward(Deduce(@))]]
        c == tuple_ctor(types, fwd, 0)
    IN  [ok |-> c.ok, obj |-> Obj(types, c.data), log |-> c.log]

\* detail::forward_as_tuple(T&&... args): tuple<T&&...>(forward<T>(args)...)
forward_as_tuple(args) ==
    LET types == [k \in 1..Len(args) |-> AddRRef(Deduce(args[k].cfg))]
        fwd == [k \in 1..Len(args) |-> [args[k] EXCEPT !.cfg = forward(Deduce(@))]]
        c == tuple_ctor(types, fwd, 0)
    IN  [ok |-> c.ok, obj |-> Obj(types, c.data), log |-> c.log]

\* get<indices>(forward<Tuple>(t))... for indices = 0..size-1
get_all(obj, slot, cfg, size) ==
    LET gs == [k \in 1..size |-> get(k - 1, obj, forward(Deduce(cfg)))]
    IN  [ok |-> \A k \in 1..size : gs[k].ok,
         args |-> [k \in 1..size |->
                     IF gs[k].ok THEN get_arg(obj, slot, gs[k]) ELSE Arg(cfg, 0, <<>>)]]

\* detail::concat_with_fwd_tuple<index_sequence<fwd_indices...>,
\*     index_sequence<indices...>>::f(fwd, t)
concat_with_fwd_tuple(fwd, fslot, fcfg, t, tslot, tcfg) ==
    LET a == get_all(fwd, fslot, fcfg, Len(fwd.types))
        b == get_all(t, tslot, tcfg, Len(t.types))
        v == forward_as_tuple(a.args \o b.args)
    IN  IF a.ok /\ b.ok /\ v.ok THEN v
        ELSE [ok |-> FALSE, obj |-> NoObj, log |-> <<>>]

\* detail::make_tuple_from_fwd_tuple<index_sequence<indices...>>::f(fwd):
\*     tuple{ get<indices>(forward<fwd_tuple>(fwd))... }
make_tuple_from_fwd_tuple(fwd, fslot, fcfg, size) ==
    LET a == get_all(fwd, fslot, fcfg, size)
        t == tuple(a.args)
    IN  IF a.ok /\ t.ok THEN t
        ELSE [ok |-> FALSE, obj |-> NoObj, log |-> <<>>]

\* detail::tuple_cat_impl::f: the fold over the remaining operands ts, then the
\* materialisation of the accumulated tuple.  The last step takes
\* tuple_size_v<fwd_tuple> of the deduced parameter type itself.
RECURSIVE tuple_cat_impl(_, _, _, _)
tuple_cat_impl(rest, rslot, rcfg, ts) ==
    IF ts = <<>>
    THEN LET fwd_tuple == Deduce(rcfg)
             size == IF fwd_tuple.ref = "val" /\ ~fwd_tuple.const
                     THEN tuple_size(TypeOf(rest)) ELSE Rejected
         IN  IF size.ok
             THEN make_tuple_from_fwd_tuple(rest, rslot, forward(fwd_tuple), size.value)
             ELSE [ok |-> FALSE, obj |-> NoObj, log |-> <<>>]
    ELSE LET t == Head(ts)
             v == concat_with_fwd_tuple(rest, rslot, forward(Deduce(rcfg)),
                                        t.obj, t.slot, forward(Deduce(t.cfg)))
         IN  IF v.ok
             THEN LET r == tuple_cat_impl(v.obj, "", "non_const_rvalue", Tail(ts))
                  IN  IF r.ok THEN [r EXCEPT !.log = v.log \o @] ELSE r
             ELSE [ok |-> FALSE, obj |-> NoObj, log |-> <<>>]

\* tuple_cat(tuples...): detail::tuple_cat_impl::f(forward<Tuple>(tuples)...)
tuple_cat(ops) ==
    tuple_cat_impl(tup[ops[1].slot], ops[1].slot, forward(Deduce(ops[1].cfg)),
                   [k \in 1..(Len(ops) - 1) |->
                       [obj |-> tup[ops[k + 1].slot], slot |-> ops[k + 1].slot,
                        cfg |-> ops[k + 1].cfg]])

\* ------------------------------------------------------------ combinators
\* the class of the elements the tuples hold (test::IndexedCopyCounter)
ElementClass == "IndexedCopyCounter"

\* the namespace a name of tuple.h is declared in
NamespaceOf(name) ==
    IF name \in {"tuple_size", "get_impl", "make_tuple_from_fwd_tuple", "forward_as_tuple",
                 "concat_with_fwd_tuple", "tuple_cat_impl", "cat_tuple_content",
                 "transform_impl"}
    THEN <<"metakit", "detail">>
    ELSE <<"metakit">>

\* unqualified lookup of a name from a scope: the name is declared in the scope
\* or in a namespace that encloses it.  (Argument-dependent lookup adds nothing
\* for an element class declared outside metakit.)
Visible(name, scope) ==
    /\ Len(NamespaceOf(name)) <= Len(scope)
    /\ SubSeq(scope, 1, Len(NamespaceOf(name))) = NamespaceOf(name)

\* the type of an element that is itself a tuple, and such an element
NestedTy(L) == [ref |-> "val", const |-> FALSE, tmpl |-> L.tmpl, types |-> L.types]

Nested(obj) == [own |-> TRUE, v |-> 0, src |-> <<>>, nested |-> obj]

IsTupleType(ty) == "tmpl" \in DOMAIN ty /\ ty.tmpl = "tuple"

\* a function object given to transform: its name and, for the lambda of
\* filter, the predicate Pred
Func(name, pred) == [name |-> name, pred |-> pred]

\* what a call func(e) returns: an object (kind "value", the temporary arg) or
\* a tuple (kind "tuple", obj)
Returned(kind, v, obj) ==
    [ok |-> TRUE, kind |-> kind, arg |-> Arg("non_const_rvalue", v, <<>>), obj |-> obj]

NotBuilt == [ok |-> FALSE, kind |-> "", arg |-> Arg("", 0, <<>>), obj |-> NoObj]

\* filter's lambda wrap_if_pred_matches(Elem&& e):
\*     if constexpr (Pred<remove_cvrf_t<Elem>>::value)
\*          return forward_as_tuple(forward<Elem>(e));   -- looked up from metakit
\*     else return tuple<>{};
wrap_if_pred_matches(P, e) ==
    IF PREDICATE_value(P, ElementClass).value
    THEN IF Visible("forward_as_tuple", <<"metakit">>)
         THEN Returned("tuple", 0,
                  forward_as_tuple(<< [e EXCEPT !.cfg = forward(Deduce(@))] >>).obj)
         ELSE NotBuilt
    ELSE Returned("tuple", 0, Obj(<<>>, <<>>))

\* func(e) for the function objects the combinators are given: plus_one returns
\* an element one greater than e, make_empty returns tuple<>{}
invoke(func, e) ==
    CASE func.name = "plus_one" -> Returned("value", e.v + 1, NoObj)
      [] func.name = "make_empty" -> Returned("tuple", 0, Obj(<<>>, <<>>))
      [] func.name = "wrap_if_pred_matches" -> wrap_if_pred_matches(func.pred, e)

\* tuple<unwrap_ref_decay_t<T>...>{ r1, ..., rn } when some ri is a tuple: that
\* element is a tuple of its own; the other elements are move-constructed from
\* the temporaries, the last position first
tuple_of_tuples(rs) ==
    [ok |-> TRUE,
     obj |-> Obj([k \in 1..Len(rs) |->
                     IF rs[k].kind = "tuple" THEN NestedTy(TypeOf(rs[k].obj))
                     ELSE unwrap_ref_decay_t(Deduce(rs[k].arg.cfg))],
                 [k \in 1..Len(rs) |->
                     IF rs[k].kind = "tuple" THEN Nested(rs[k].obj)
                     ELSE Own(rs[k].arg.v)]),
     log |-> SelectSeq([k \in 1..Len(rs) |-> Event("move", Len(rs) - k)],
                       LAMBDA e : rs[e.pos + 1].kind = "value")]

\* tuple{ r1, ..., rn } with the template arguments deduced: a sole argument
\* that is a tuple selects the copy deduction candidate, so the result IS that
\* tuple; otherwise the guide of tuple.h:50 deduces one element per argument
tuple_ctad(rs) ==
    IF Len(rs) = 1 /\ rs[1].kind = "tuple"
    THEN [ok |-> TRUE, obj |-> rs[1].obj, log |-> <<>>]
    ELSE IF \A k \in 1..Len(rs) : rs[k].kind = "value"
    THEN tuple([k \in 1..Len(rs) |-> rs[k].arg])
    ELSE tuple_of_tuples(rs)

\* the outcome of a combinator that is not built
NoTuple == [ok |-> FALSE, obj |-> NoObj, log |-> <<>>, calls |-> <<>>]

\* the outcome r of a construction, with the calls made on the way
with_calls(r, calls) == [ok |-> r.ok, obj |-> r.obj, log |-> r.log, calls |-> calls]

\* the calls func(get<indecise>(tup))... of the braced list, in list order
invoke_all(func, args) == [k \in 1..Len(args) |-> invoke(func, args[k])]

\* detail::transform_impl(tup, func, index_sequence<indecise...>):
\*     tuple{ func(get<indecise>(forward<Tup>(tup)))... }
\* The initialisers of a braced list are evaluated in the order they appear.
transform_impl(gs, func) ==
    IF ~gs.ok \/ (\E k \in 1..Len(gs.args) : ~invoke(func, gs.args[k]).ok)
    THEN NoTuple
    ELSE with_calls(tuple_ctad(invoke_all(func, gs.args)),
                    [k \in 1..Len(gs.args) |-> k - 1])

\* transform(tup, func): detail::transform_impl(forward<Tup>(tup), func,
\*     make_index_sequence<detail::tuple_size_v<remove_cvrf_t<Tup>>>{})
transform(obj, slot, cfg, func) ==
    transform_impl(get_all(obj, slot, forward(Deduce(cfg)), tuple_size(TypeOf(obj)).value),
                   func)

\* the operands get<indecise>(forward<Tup>(T))... of cat_tuple_content
cat_operands(T, gs) ==
    [k \in 1..Len(gs.args) |->
        [obj |-> T.data[k].nested, slot |-> "", cfg |-> gs.args[k].cfg]]

\* detail::cat_tuple_content(T, index_sequence<indecise...>):
\*     tuple_cat(get<indecise>(forward<Tup>(T))...)
\* tuple_cat is declared after this template, so the call finds it by
\* argument-dependent lookup only, through an operand of a metakit type; every
\* operand must then be a tuple for tuple_size_v.
cat_tuple_content(T, gs) ==
    IF ~gs.ok THEN NoTuple
    ELSE IF ~(\E k \in 1..Len(gs.args) : IsTupleType(T.types[k])) THEN NoTuple
    ELSE IF \E k \in 1..Len(gs.args) : ~IsTupleType(T.types[k]) THEN NoTuple
    ELSE with_calls(tuple_cat_impl(Head(cat_operands(T, gs)).obj, "",
                                   forward(Deduce(Head(cat_operands(T, gs)).cfg)),
                                   Tail(cat_operands(T, gs))),
                    <<>>)

\* the second step of filter, on the tuple transform returned
filter_cat(wrapped, size) ==
    IF ~wrapped.ok THEN NoTuple
    ELSE [cat_tuple_content(wrapped.obj,
                            get_all(wrapped.obj, "", move("non_const_lvalue"), size))
          EXCEPT !.calls = wrapped.calls]

\* filter<Pred>(t):
\*     wrapped_tuple = transform(forward<Tup>(t), wrap_if_pred_matches);
\*     detail::cat_tuple_content(move(wrapped_tuple),
\*         make_index_sequence<detail::tuple_size_v<remove_cvrf_t<Tup>>>{})
filter(obj, slot, cfg, P) ==
    filter_cat(transform(obj, slot, forward(Deduce(cfg)), Func("wrap_if_pred_matches", P)),
               tuple_size(TypeOf(obj)).value)

\* the operand lists of exactly n named tuples of slots, each in a category of cfgs
RECURSIVE OperandsOfLen(_, _, _)
OperandsOfLen(n, slots, cfgs) ==
    IF n = 0 THEN { <<>> }
    ELSE { << [slot |-> s, cfg |-> c] >> \o o :
             s \in slots, c \in cfgs, o \in OperandsOfLen(n - 1, slots, cfgs) }

Operands(lo, hi, slots, cfgs) == UNION { OperandsOfLen(k, slots, cfgs) : k \in lo..hi }

Init ==
    /\ tup = [s \in Slots |-> NoObj]
    /\ view = NoObj
    /\ result = NoObj
    /\ stats = [i \in {metakit_tuple, std_tuple} |-> ZeroStats]
    /\ seq = List("type_list", <<>>)
    /\ last = Request("init")

\* src.cpp test "constructor":  c1 = make_copy_counter<metakit_tuple>();
\* c2 = make_copy_counter<std_tuple>(); tuple t1{args}; std::tuple t2{args}
Construct(s, args) ==
    /\ ~tup[s].live
    /\ LET t1 == tuple(args)
           t2 == std_tuple_log(args)
       IN  /\ tup' = [tup EXCEPT ![s] = IF t1.ok THEN t1.obj ELSE NoObj]
           /\ stats' = [stats EXCEPT
                  ![metakit_tuple] = Count(reset(@).stats, IF t1.ok THEN t1.log ELSE <<>>),
                  ![std_tuple] = Count(reset(@).stats, t2)]
           /\ last' = [Request("constructor") EXCEPT
                  !.ok = t1.ok, !.target = s, !.args = args,
                  !.log = IF t1.ok THEN t1.log ELSE <<>>]
    /\ UNCHANGED <<seq, view, result>>

\* src.cpp test "make_tuple": the same with make_tuple / std::make_tuple
MakeTuple(s, args) ==
    /\ ~tup[s].live
    /\ LET t1 == make_tuple(args)
           t2 == std_tuple_log(args)
       IN  /\ tup' = [tup EXCEPT ![s] = IF t1.ok THEN t1.obj ELSE NoObj]
           /\ stats' = [stats EXCEPT
                  ![metakit_tuple] = Count(reset(@).stats, IF t1.ok THEN t1.log ELSE <<>>),
                  ![std_tuple] = Count(reset(@).stats, t2)]
           /\ last' = [Request("make_tuple") EXCEPT
                  !.ok = t1.ok, !.target = s, !.args = args,
                  !.log = IF t1.ok THEN t1.log ELSE <<>>]
    /\ UNCHANGED <<seq, view, result>>

\* the declared types of a tuple of n elements of the element class
Elements(n) == [k \in 1..n |-> Ty("val", FALSE)]

\* a tuple argument of n elements, in one of the categories of cfgs; its
\* elements hold the values 21, 22, ...
TupleArgs(n, cfgs) ==
    { TupleArg(c, Obj(Elements(k), [j \in 1..k |-> Own(20 + j)])) : k \in 0..n, c \in cfgs }

\* the argument lists of a construction with the element types written out:
\* element arguments, or one or more element arguments and then a tuple
ExplicitArgLists(n, ecfgs, cfgs) ==
    ArgLists(n, ecfgs)
      \cup { a \o << t >> : a \in ArgLists(n, ecfgs) \ { <<>> }, t \in TupleArgs(n, cfgs) }

\* tuple<element1, ..., elementn> t{args...}: the element types are written
\* out, not deduced
tuple_explicit(n, args) ==
    [ok |-> tuple_ctor(Elements(n), args, 0).ok,
     obj |-> Obj(Elements(n), tuple_ctor(Elements(n), args, 0).data),
     log |-> tuple_ctor(Elements(n), args, 0).log]

\* what a construction of outcome t1 in slot s leaves behind
ConstructAsReturn(s, n, args, t1) ==
    /\ tup' = [tup EXCEPT ![s] = IF t1.ok THEN t1.obj ELSE NoObj]
    /\ stats' = [stats EXCEPT
           ![metakit_tuple] = Count(reset(@).stats, IF t1.ok THEN t1.log ELSE <<>>)]
    /\ last' = [Request("construct_as") EXCEPT
           !.ok = t1.ok, !.target = s, !.args = args, !.i = n,
           !.log = IF t1.ok THEN t1.log ELSE <<>>]

\* c1 = make_copy_counter<metakit_tuple>(); tuple<D1, ..., Dn> t{args...}
ConstructAs(s, n, args) ==
    /\ ~tup[s].live
    /\ ConstructAsReturn(s, n, args, tuple_explicit(n, args))
    /\ UNCHANGED <<seq, view, result>>

\* the named tuple of slot s goes out of scope; a view that aliases it has
\* gone before it
Destroy(s) ==
    /\ tup[s].live
    /\ \A k \in 1..Len(view.data) : view.data[k].src[1] # s
    /\ tup' = [tup EXCEPT ![s] = NoObj]
    /\ last' = [Request("destroy") EXCEPT
           !.target = s, !.pre = tup[s], !.log = tuple_dtor(tup[s].data, 0)]
    /\ UNCHANGED <<seq, view, result, stats>>

\* the caller drops the forwarding view it kept
DropView ==
    /\ view.live
    /\ view' = NoObj
    /\ last' = [Request("drop_view") EXCEPT !.pre = view, !.log = tuple_dtor(view.data, 0)]
    /\ UNCHANGED <<seq, tup, result, stats>>

\* the request an access get<i>(t) of outcome g, on the object obj, leaves behind
GetReturn(t, i, cfg, obj, g) ==
    [Request("get") EXCEPT
        !.ok = g.ok, !.target = t, !.i = i, !.cfg = cfg,
        !.before = stats[metakit_tuple], !.level = g.level, !.type = g.type,
        !.casts = g.casts, !.pre = obj,
        !.value = IF g.ok THEN ValueOf(obj.data[g.level + 1]) ELSE 0]

\* get<i>(t) for the tuple of a target, accessed as an expression of category cfg
Get(t, i, cfg) ==
    /\ ObjOf(t).live
    /\ last' = GetReturn(t, i, cfg, ObjOf(t), get(i, ObjOf(t), cfg))
    /\ UNCHANGED <<seq, tup, view, result, stats>>

\* what an assignment through the access g leaves behind: accepted or not, it
\* is recorded; accepted, it writes the element d the access denotes
AssignWrite(t, i, cfg, v, obj, g, accepted, d) ==
    [last |-> [Request("assign") EXCEPT
                  !.ok = accepted, !.target = t, !.i = i, !.cfg = cfg, !.value = v,
                  !.before = stats[metakit_tuple], !.level = g.level, !.type = g.type,
                  !.pre = obj],
     tup |-> IF accepted /\ d[1] \in Slots
             THEN [tup EXCEPT ![d[1]].data[d[2] + 1].v = v] ELSE tup,
     result |-> IF accepted /\ d[1] = "result"
                THEN [result EXCEPT !.data[d[2] + 1].v = v] ELSE result]

AssignReturn(t, i, cfg, v, obj, g) ==
    AssignWrite(t, i, cfg, v, obj, g, g.ok /\ ~g.type.const,
                Deref(t, g.level, obj.data[g.level + 1]))

\* get<i>(t) = v: the assignment is accepted when the access is not const and
\* writes the element the access denotes
Assign(t, i, cfg, v) ==
    /\ ObjOf(t).live
    /\ \E r \in { AssignReturn(t, i, cfg, v, ObjOf(t), get(i, ObjOf(t), cfg)) } :
           /\ last' = r.last
           /\ tup' = r.tup
           /\ result' = r.result
    /\ UNCHANGED <<seq, view, stats>>

\* the view built of the accesses gs, one per operand
forward_as_tuple_view(ops, gs) ==
    forward_as_tuple([k \in 1..Len(ops) |->
        IF gs[k].ok THEN get_arg(tup[ops[k].slot], ops[k].slot, gs[k])
        ELSE Arg(ops[k].cfg, 0, <<>>)])

\* what the call leaves behind: the view the caller keeps, and the request
ForwardAsTupleReturn(ops, ok, v) ==
    [view |-> IF ok /\ v.ok THEN v.obj ELSE view,
     last |-> [Request("forward_as_tuple") EXCEPT
                  !.ok = ok /\ v.ok, !.args = ops, !.before = stats[metakit_tuple],
                  !.log = IF ok /\ v.ok THEN v.log ELSE <<>>]]

\* the call, given the accesses get<0>(t1), ... it takes its arguments from
ForwardAsTupleOf(ops, gs) ==
    ForwardAsTupleReturn(ops, \A k \in 1..Len(ops) : gs[k].ok,
                         forward_as_tuple_view(ops, gs))

\* v = detail::forward_as_tuple(get<0>(t1), ...): a view of the first elements
\* of named tuples, each accessed in its own category
ForwardAsTuple(ops) ==
    /\ \A k \in 1..Len(ops) : tup[ops[k].slot].live
    /\ \E r \in { ForwardAsTupleOf(ops, [k \in 1..Len(ops) |->
                                             get(0, tup[ops[k].slot], ops[k].cfg)]) } :
           view' = r.view /\ last' = r.last
    /\ UNCHANGED <<seq, tup, result, stats>>

\* IndexedCopyCounter<metakit_tuple>::reset()
Reset ==
    /\ stats[metakit_tuple] # ZeroStats
    /\ stats' = [stats EXCEPT ![metakit_tuple] = reset(@).stats]
    /\ last' = [Request("reset") EXCEPT !.before = reset(stats[metakit_tuple]).old]
    /\ UNCHANGED <<seq, tup, view, result>>

\* IndexedCopyCounter<i> c;  IndexedCopyCounter<i> d{c};
\* IndexedCopyCounter<i> e{std::move(c)}: one counter object constructed on
\* its own, by the constructor ev names
CounterConstruct(i, ev) ==
    /\ Count(stats[i], <<Event(ev, 0)>>) \in
           { CopyStats(d, c, m) : d \in 0..MaxCount, c \in 0..MaxCount, m \in 0..MaxCount }
    /\ stats' = [stats EXCEPT ![i] = Count(@, <<Event(ev, 0)>>)]
    /\ last' = [Request("counter_construct") EXCEPT !.i = i, !.before = stats[i]]
    /\ UNCHANGED <<seq, tup, view, result>>

\* IndexedCopyCounter<i>::reset(), the returned statistics kept by the caller
CounterReset(i) ==
    /\ stats' = [stats EXCEPT ![i] = reset(@).stats]
    /\ last' = [Request("counter_reset") EXCEPT !.i = i, !.before = reset(stats[i]).old]
    /\ UNCHANGED <<seq, tup, view, result>>

\* auto c = make_copy_counter<i>(); the statistics read through c afterwards
MakeCopyCounter(i) ==
    /\ stats' = [stats EXCEPT ![i] = make_copy_counter(@)]
    /\ last' = [Request("make_copy_counter") EXCEPT
           !.i = i, !.before = make_copy_counter(stats[i])]
    /\ UNCHANGED <<seq, tup, view, result>>

\* what a call tuple_cat(t1, ..., tk) of outcome r leaves behind: the returned
\* tuple and the constructions it counted
TupleCatReturn(ops, r) ==
    /\ result' = IF r.ok THEN r.obj ELSE NoObj
    /\ stats' = [stats EXCEPT ![metakit_tuple] = Count(@, r.log)]
    /\ last' = [Request("tuple_cat") EXCEPT
           !.ok = r.ok, !.args = ops, !.before = stats[metakit_tuple],
           !.log = r.log]

\* result = tuple_cat(t1, ..., tk) over named tuples, each in its own category,
\* called with the counters at zero
TupleCat(ops) ==
    /\ ops # <<>>
    /\ \A k \in 1..Len(ops) : tup[ops[k].slot].live
    /\ stats[metakit_tuple] = ZeroStats
    /\ TupleCatReturn(ops, tuple_cat(ops))
    /\ UNCHANGED <<seq, tup, view>>

\* using L = push_back_t<L, T>
PushBack(T) ==
    /\ Len(seq.types) < MaxSeq
    /\ seq' = push_back(seq, T).type
    /\ last' = [Request("push_back") EXCEPT
           !.list = seq, !.rtype = T, !.rlist = push_back(seq, T).type]
    /\ UNCHANGED <<tup, view, result, stats>>

\* using L = pop_front_t<L>; a rejected request leaves the sequence as it was
PopFront ==
    /\ seq' = IF pop_front(seq).ok THEN pop_front(seq).type ELSE seq
    /\ last' = [Request("pop_front") EXCEPT
           !.ok = pop_front(seq).ok, !.list = seq,
           !.rlist = IF pop_front(seq).ok THEN pop_front(seq).type ELSE seq]
    /\ UNCHANGED <<tup, view, result, stats>>

\* using L = pop_back_t<L>
PopBack ==
    /\ seq' = IF pop_back_t(seq).ok THEN pop_back_t(seq).type ELSE seq
    /\ last' = [Request("pop_back") EXCEPT
           !.ok = pop_back_t(seq).ok, !.list = seq,
           !.rlist = IF pop_back_t(seq).ok THEN pop_back_t(seq).type ELSE seq]
    /\ UNCHANGED <<tup, view, result, stats>>

\* front_t<L>
Front ==
    /\ last' = [Request("front") EXCEPT
           !.ok = front(seq).ok, !.list = seq,
           !.rtype = IF front(seq).ok THEN front(seq).type ELSE ""]
    /\ UNCHANGED <<tup, view, result, stats, seq>>

\* back_t<L>
Back ==
    /\ last' = [Request("back") EXCEPT
           !.ok = back(seq).ok, !.list = seq,
           !.rtype = IF back(seq).ok THEN back(seq).type ELSE ""]
    /\ UNCHANGED <<tup, view, result, stats, seq>>

\* at_t<L, index>
At(index) ==
    /\ last' = [Request("at") EXCEPT
           !.ok = at(seq, index).ok, !.list = seq, !.i = index,
           !.rtype = IF at(seq, index).ok THEN at(seq, index).type ELSE ""]
    /\ UNCHANGED <<tup, view, result, stats, seq>>

\* any_v<P, L>
AnyV(P) ==
    /\ last' = [Request("any") EXCEPT
           !.ok = any(P, seq).ok, !.list = seq, !.pred = P,
           !.holds = any(P, seq).ok /\ any(P, seq).value,
           !.evals = any(P, seq).evals]
    /\ UNCHANGED <<tup, view, result, stats, seq>>

\* contains_type_v<search, L>
ContainsTypeV(search) ==
    /\ last' = [Request("contains") EXCEPT
           !.ok = contains_type_v(search, seq).ok, !.list = seq,
           !.rtype = search, !.pred = is_same_pred(search),
           !.holds = contains_type_v(search, seq).ok /\ contains_type_v(search, seq).value,
           !.evals = contains_type_v(search, seq).evals]
    /\ UNCHANGED <<tup, view, result, stats, seq>>

\* detail::tuple_size_v<L>
TupleSize ==
    /\ last' = [Request("tuple_size") EXCEPT
           !.ok = tuple_size(seq).ok, !.list = seq,
           !.value = IF tuple_size(seq).ok THEN tuple_size(seq).value ELSE 0]
    /\ UNCHANGED <<tup, view, result, stats, seq>>

\* tuple_element_t<index, L>
TupleElement(index) ==
    /\ last' = [Request("tuple_element") EXCEPT
           !.ok = tuple_element(index, seq).ok, !.list = seq, !.i = index,
           !.rtype = IF tuple_element(index, seq).ok
                     THEN tuple_element(index, seq).type ELSE ""]
    /\ UNCHANGED <<tup, view, result, stats, seq>>

\* using R = typename if_<condition, THEN, ELSE>::type
IfSelect(condition, THEN_, ELSE_) ==
    /\ last' = [Request("if_") EXCEPT
           !.ok = if_type(condition, THEN_, ELSE_).ok,
           !.cond = condition, !.then_ = THEN_, !.else_ = ELSE_,
           !.rtype = IF if_type(condition, THEN_, ELSE_).ok
                     THEN if_type(condition, THEN_, ELSE_).type ELSE ""]
    /\ UNCHANGED <<tup, view, result, stats, seq>>

\* what a call of a combinator of outcome r leaves behind
CombinatorReturn(op, t, cfg, func, r) ==
    /\ result' = IF r.ok THEN r.obj ELSE NoObj
    /\ stats' = [stats EXCEPT ![metakit_tuple] = Count(@, r.log)]
    /\ last' = [Request(op) EXCEPT
           !.ok = r.ok, !.target = t, !.cfg = cfg, !.func = func.name, !.pred = func.pred,
           !.before = stats[metakit_tuple], !.log = r.log, !.calls = r.calls,
           !.pre = tup[t]]

\* result = transform(t, func), t accessed as an expression of category cfg,
\* called with the counters at zero
Transform(t, cfg, func) ==
    /\ tup[t].live
    /\ stats[metakit_tuple] = ZeroStats
    /\ CombinatorReturn("transform", t, cfg, func, transform(tup[t], t, cfg, func))
    /\ UNCHANGED <<tup, view, seq>>

\* result = filter<P>(t)
Filter(t, cfg, P) ==
    /\ tup[t].live
    /\ stats[metakit_tuple] = ZeroStats
    /\ CombinatorReturn("filter", t, cfg, Func("wrap_if_pred_matches", P),
                        filter(tup[t], t, cfg, P))
    /\ UNCHANGED <<tup, view, seq>>

Named == {"non_const_lvalue"}

\* the access engine: a named tuple A, a view of it, accesses and assignments
Next ==
    \/ \E args \in ArgLists(MaxLen, Named) : Construct("A", args)
    \/ \E ops \in Operands(0, MaxView, {"A"}, Configuration) : ForwardAsTuple(ops)
    \/ \E t \in {"A", "view"}, i \in 0..MaxLen, cfg \in Configuration : Get(t, i, cfg)
    \/ \E t \in {"A", "view"}, i \in 0..MaxLen, cfg \in Configuration, v \in Values :
           Assign(t, i, cfg, v)
    \/ DropView
    \/ Destroy("A")

Spec == Init /\ [][Next]_vars

\* construction and destruction of one tuple from arguments of every category
NextCtor ==
    \/ \E args \in ArgLists(MaxLen, Configuration) : Construct("A", args)
    \/ \E args \in ArgLists(MaxLen, Configuration) : MakeTuple("A", args)
    \/ Destroy("A")

SpecCtor == Init /\ [][NextCtor]_vars

\* construction of one tuple whose element types are written out, from
\* argument lists of every length
NextArity ==
    \/ \E n \in 0..MaxLen, args \in ExplicitArgLists(MaxLen, Named, Configuration) :
           ConstructAs("A", n, args)
    \/ Destroy("A")

SpecArity == Init /\ [][NextArity]_vars

\* concatenation of the named tuples A and B
NextCat ==
    \/ \E s \in Slots, args \in ArgLists(MaxLen, Named) : Construct(s, args)
    \/ Reset
    \/ \E ops \in Operands(1, MaxCat, Slots, {"non_const_lvalue", "non_const_rvalue"}) :
           TupleCat(ops)
    \/ \E s \in Slots : Destroy(s)

SpecCat == Init /\ [][NextCat]_vars

\* forwarding views over the first elements of the named tuples A and B, each
\* argument a named or a temporary expression
NextView ==
    \/ \E s \in Slots, args \in ArgLists(MaxSrc, Named) : Construct(s, args)
    \/ \E ops \in Operands(0, MaxFwd, Slots, {"non_const_lvalue", "non_const_rvalue"}) :
           ForwardAsTuple(ops)
    \/ DropView
    \/ \E s \in Slots : Destroy(s)

SpecView == Init /\ [][NextView]_vars

\* the function objects transform is given and the predicates of filter
Funcs == {Func("plus_one", NoPred), Func("make_empty", NoPred)}

FilterPredicates == {Pred("is_integral", ""), Pred("is_class", "")}

\* the combinators over the named tuple A
NextComb ==
    \/ \E args \in ArgLists(MaxLen, Named) : Construct("A", args)
    \/ Reset
    \/ \E cfg \in Configuration, func \in Funcs : Transform("A", cfg, func)
    \/ \E cfg \in Configuration, P \in FilterPredicates : Filter("A", cfg, P)
    \/ Destroy("A")

SpecComb == Init /\ [][NextComb]_vars

\* the type-sequence algebra: a sequence of either variadic template, grown
\* and shrunk entry by entry and queried
InitSeq ==
    /\ tup = [s \in Slots |-> NoObj]
    /\ view = NoObj
    /\ result = NoObj
    /\ stats = [i \in {metakit_tuple, std_tuple} |-> ZeroStats]
    /\ seq \in { List(tmpl, <<>>) : tmpl \in Templates }
    /\ last = Request("init")

NextSeq ==
    \/ \E T \in Types : PushBack(T)
    \/ PopFront
    \/ PopBack
    \/ Front
    \/ Back
    \/ \E index \in 0..(MaxSeq + 1) : At(index)
    \/ \E P \in Predicates : AnyV(P)
    \/ \E search \in Types : ContainsTypeV(search)
    \/ TupleSize
    \/ \E index \in 0..(MaxSeq + 1) : TupleElement(index)
    \/ \E condition \in BOOLEAN, THEN_ \in Candidates, ELSE_ \in Candidates :
           IfSelect(condition, THEN_, ELSE_)

SpecSeq == InitSeq /\ [][NextSeq]_vars

\* the counters on their own: counter objects of either index constructed,
\* copied and moved, the statistics of an index reset or a fresh counter made
NextCount ==
    \/ \E i \in {metakit_tuple, std_tuple}, ev \in {"default", "copy", "move"} :
           CounterConstruct(i, ev)
    \/ \E i \in {metakit_tuple, std_tuple} : CounterReset(i)
    \/ \E i \in {metakit_tuple, std_tuple} : MakeCopyCounter(i)

SpecCount == Init /\ [][NextCount]_vars

\* ------------------------------------------------------------ properties
\* what get<i>(t) reads from a named tuple
GetValue(obj, i) ==
    LET g == get(i, obj, "const_lvalue")
    IN  [ok |-> g.ok, value |-> IF g.ok THEN ValueOf(obj.data[g.level + 1]) ELSE 0]

\* the lengths of the operands of the last tuple_cat, added up
RECURSIVE SumLen(_)
SumLen(ops) == IF ops = <<>> THEN 0 ELSE Len(tup[Head(ops).slot].data) + SumLen(Tail(ops))

\* C1: for all tuples A and B, tuple_cat(A, B) is built, has length
\* length(A) + length(B), get(i, .) of it equals get(i, A) for i < length(A)
\* and get(i - length(A), B) for the later i.
C1_CatElements ==
    (last.op = "tuple_cat" /\ Len(last.args) = 2) =>
        LET A == tup[last.args[1].slot]
            B == tup[last.args[2].slot]
            la == Len(A.types)
            lb == Len(B.types)
        IN  /\ last.ok
            /\ tuple_size(TypeOf(result)) = [ok |-> TRUE, value |-> la + lb]
            /\ \A i \in 0..(la + lb - 1) :
                  /\ GetValue(result, i).ok
                  /\ GetValue(result, i) =
                        IF i < la THEN GetValue(A, i) ELSE GetValue(B, i - la)

\* C2: tuple_cat(T1..Tk) is built for every k and performs exactly
\* sum(length(Ti)) element constructions, all of them counted by the counters.
C2_CatConstructions ==
    last.op = "tuple_cat" =>
        /\ last.ok
        /\ Constructions(last.log) = SumLen(last.args)
        /\ stats[metakit_tuple].n_copies + stats[metakit_tuple].n_moves
              = last.before.n_copies + last.before.n_moves + SumLen(last.args)

\* what tuple_cat does where it is built: total length at most one
CatBuilt ==
    last.op = "tuple_cat" =>
        (last.ok <=> /\ SumLen(last.args) <= 1
                     /\ (Len(last.args) = 1 => last.args[1].cfg = "non_const_rvalue"))

\* the last request was get<i>(t) with i inside the tuple
InRangeGet == last.op = "get" /\ last.i < Len(last.pre.types)

\* the access the four-way table gives an expression of category cfg
TableAccess(cfg) ==
    CASE cfg = "non_const_lvalue" -> "mutable_alias"
      [] cfg = "const_lvalue"     -> "immutable_alias"
      [] cfg = "non_const_rvalue" -> "movable_handle"
      [] cfg = "const_rvalue"     -> "immutable_handle"

\* C3: for every tuple and in-range index i, get(i, t) returns the access the
\* table gives the category of t, whatever i and the element are.
C3_AccessTable ==
    InRangeGet => (last.ok /\ AccessKind(last.type) = TableAccess(last.cfg))

\* C4: for every in-range index i and category, get(i, t) applies exactly one
\* qualifier cast, at the level whose head is element i, and constructs nothing.
C4_OneCast ==
    InRangeGet =>
        /\ last.ok
        /\ last.casts = << last.i >>
        /\ stats[metakit_tuple] = last.before

\* C5: for every in-range index i, get(i, t) denotes the element stored at
\* position i, the value bound from argument i + 1.
C5_GetPosition ==
    (InRangeGet /\ last.target = "A") =>
        /\ last.ok
        /\ last.level = last.i
        /\ last.value = ValueOf(tup["A"].data[last.i + 1])

\* C6: after get(i, t) = v on a mutable named tuple t, get(i, t) equals v.
C6_MutationObserved ==
    (/\ last.op = "assign"
     /\ last.cfg = "non_const_lvalue"
     /\ last.target = "A"
     /\ last.i < Len(last.pre.types)) =>
        /\ last.ok
        /\ GetValue(tup["A"], last.i) = [ok |-> TRUE, value |-> last.value]

\* what get does where it is built: index 0 of a non-empty tuple only
GetBuilt ==
    last.op = "get" => (last.ok <=> (last.i = 0 /\ Len(last.pre.types) > 0))

\* the declared type of the element the last get reached
ReachedDecl == last.pre.types[last.level + 1]

\* C7 as stated: through an immutable named tuple, get(i, t) is an immutable
\* alias whatever the declared type of the element, an alias included, and no
\* assignment through it is accepted.
C7_ImmutableNamed ==
    /\ (last.op = "get" /\ last.cfg = "const_lvalue" /\ last.ok)
          => AccessKind(last.type) = "immutable_alias"
    /\ (last.op = "assign" /\ last.cfg = "const_lvalue") => ~last.ok

\* C7 amended: through an immutable named tuple, get(i, t) is an immutable alias
\* of every element the tuple owns and no assignment to such an element is
\* accepted; for an element declared as an alias the access is an lvalue alias
\* with the constness of the aliased type, and an assignment through it is
\* accepted exactly when that type is not const.
C7_ImmutableNamedOwned ==
    /\ (last.op = "get" /\ last.cfg = "const_lvalue" /\ last.ok) =>
          IF ReachedDecl.ref = "val"
          THEN AccessKind(last.type) = "immutable_alias"
          ELSE last.type = Ty("lref", ReachedDecl.const)
    /\ (last.op = "assign" /\ last.cfg = "const_lvalue") =>
          /\ last.ok => (ReachedDecl.ref # "val" /\ ~ReachedDecl.const)
          /\ last.target = "A" => (~last.ok /\ tup["A"] = last.pre)

\* an immutable named tuple that owns its elements was accessed
C7_Witness ==
    /\ last.op = "get"
    /\ last.cfg = "const_lvalue"
    /\ last.target = "A"
    /\ last.ok
    /\ AccessKind(last.type) = "immutable_alias"

DepthIsLength ==
    \A o \in {tup["A"], tup["B"], view, result} :
        o.live => tuple_size(TypeOf(o)) = [ok |-> TRUE, value |-> Depth(o.data)]

\* tuple n has the layout of tuple o, and the elements of o outside the
\* positions of changed
SameLayout(o, n, changed) ==
    /\ n.live = o.live
    /\ n.types = o.types
    /\ Len(n.data) = Len(o.data)
    /\ \A k \in 1..Len(o.data) :
          /\ n.data[k].own = o.data[k].own
          /\ n.data[k].src = o.data[k].src
          /\ k \notin changed => n.data[k] = o.data[k]

\* the position an assignment through get<i>(target) writes: place[1] is the
\* tuple, place[2] the position in it
WrittenPlace(target, obj, i) ==
    IF obj.data[i + 1].own THEN <<target, i>> ELSE obj.data[i + 1].src

\* a get or an assignment leaves every tuple its layout; an accepted assignment
\* stores the value at the one position it names
LayoutKept ==
    last'.op \in {"get", "assign"} =>
        LET place == IF last'.op = "assign" /\ last'.ok
                     THEN WrittenPlace(last'.target, last'.pre, last'.i)
                     ELSE <<"", 0>>
        IN  /\ \A s \in Slots :
                  SameLayout(tup[s], tup'[s], IF place[1] = s THEN {place[2] + 1} ELSE {})
            /\ view' = view
            /\ result' = result
            /\ (last'.op = "assign" /\ last'.ok)
                  => tup'[place[1]].data[place[2] + 1].v = last'.value

\* C9: the depth of every tuple equals the length of its type sequence, and
\* get accesses and in-place assignments never change the length of a tuple or
\* the element held at a position.
C9_FixedLayout == []DepthIsLength /\ [][LayoutKept]_vars

\* an element of a tuple of two or more elements was assigned in place
C9_Witness ==
    /\ last.op = "assign"
    /\ last.ok
    /\ last.target = "A"
    /\ Len(tup["A"].data) >= 2
    /\ tup["A"].data[1].v = last.value

\* the positions of the elements a destruction destroyed, in order
Destroyed == [k \in 1..Len(last.log) |-> last.log[k].pos]

\* C10 as stated: a destroyed tuple destroys its last position first and its
\* position 0 last.
C10_LastFirst ==
    last.op = "destroy" =>
        /\ Len(Destroyed) = Len(last.pre.data)
        /\ \A k \in 1..Len(Destroyed) : Destroyed[k] = Len(last.pre.data) - k

\* C10 amended: a destroyed tuple destroys all its elements, each once, the
\* element at position 0 first and the element at the last position last.
C10_FirstFirst ==
    last.op = "destroy" =>
        /\ Len(Destroyed) = Len(last.pre.data)
        /\ \A k \in 1..Len(Destroyed) : Destroyed[k] = k - 1

\* a tuple of two or more elements was destroyed
C10_Witness ==
    /\ last.op = "destroy"
    /\ Len(last.pre.data) >= 2
    /\ Len(last.log) = Len(last.pre.data)

\* ---------------------------------------------------- combinator properties
\* the function object of the last combinator call
LastFunc == Func(last.func, last.pred)

\* the element transform is to hold at position k of its result: what the
\* function object returns for element k of the tuple it was given
Mapped(k) ==
    LET r == invoke(LastFunc, Arg("const_lvalue", ValueOf(last.pre.data[k]), <<>>))
    IN  IF r.kind = "value" THEN Own(r.arg.v) ELSE Nested(r.obj)

\* C11: transform(t, f) is built and produces a new tuple as long as t whose
\* element i is f(get(i, t)), for every i.
C11_TransformElements ==
    last.op = "transform" =>
        /\ last.ok
        /\ Len(result.data) = Len(last.pre.data)
        /\ \A k \in 1..Len(last.pre.data) :
              k <= Len(result.data) /\ result.data[k] = Mapped(k)
        /\ tup[last.target] = last.pre

\* C12: transform(t, f) calls f exactly once per element of t, in index order
\* 0..n-1.
C12_TransformOrder ==
    last.op = "transform" =>
        last.calls = [k \in 1..Len(last.pre.data) |-> k - 1]

\* what transform does: it is built for tuples of at most one element, and a
\* sole tuple that f returns becomes the result itself
TransformBuilt ==
    last.op = "transform" =>
        /\ last.ok <=> Len(last.pre.data) <= 1
        /\ (last.ok /\ Len(last.pre.data) = 1) =>
              IF last.func = "make_empty" THEN result.data = <<>>
              ELSE result.data = << Mapped(1) >>

\* the elements of the tuple filter was given whose type satisfies Pred
Satisfying ==
    SelectSeq(last.pre.data, LAMBDA e : PREDICATE_value(last.pred, ElementClass).value)

\* C13: filter<Predicate>(t) yields a tuple of exactly the elements whose type
\* satisfies Predicate, as many as satisfy it and in their original order.
C13_FilterElements ==
    last.op = "filter" =>
        /\ last.ok
        /\ Len(result.data) = Len(Satisfying)
        /\ \A k \in 1..Len(Satisfying) :
              k <= Len(result.data) /\ result.data[k] = Own(ValueOf(Satisfying[k]))

\* C14: filter<Predicate>(t) constructs every element that satisfies Predicate
\* exactly once and no element that fails it: the copies and moves counted by
\* the call are as many as the satisfying elements.
C14_FilterCost ==
    last.op = "filter" =>
        /\ Constructions(last.log) = Len(Satisfying)
        /\ stats[metakit_tuple].n_copies + stats[metakit_tuple].n_moves
              = last.before.n_copies + last.before.n_moves + Len(Satisfying)

\* what filter does: it is built for no tuple
FilterBuilt == last.op = "filter" => ~last.ok

\* ---------------------------------------------- type-sequence properties
\* some entry of the sequence L satisfies the predicate P
SomeSatisfies(P, L) ==
    \E k \in 1..Len(L.types) : PREDICATE_value(P, L.types[k]).value

\* the predicate P can be instantiated with every entry of L
DefinedOnAll(P, L) ==
    \A k \in 1..Len(L.types) : PREDICATE_value(P, L.types[k]).ok

UpToFirst(P, L) ==
    IF SomeSatisfies(P, L)
    THEN SubSeq(L.types, 1,
                CHOOSE k \in 1..Len(L.types) :
                    /\ PREDICATE_value(P, L.types[k]).value
                    /\ \A j \in 1..(k - 1) : ~PREDICATE_value(P, L.types[j]).value)
    ELSE L.types

\* C16: any(predicate) examines the entries in sequence order and, once an
\* entry satisfies the predicate, evaluates neither the predicate nor the
\* recursion on any later entry.
C16_ShortCircuit ==
    last.op = "any" => last.evals = UpToFirst(last.pred, last.list)

\* what any does: the predicate is instantiated with every entry, in order
AnyEager ==
    last.op = "any" => last.evals = last.list.types

\* C17: contains(type) over a sequence L is defined for every sequence and
\* type, and is true exactly when some entry of L is that type.
C17_ContainsIsAny ==
    last.op = "contains" =>
        /\ last.ok
        /\ last.holds <=> (\E k \in 1..Len(last.list.types) : last.list.types[k] = last.rtype)

\* what contains does: it is built for the empty sequence only
ContainsBuilt ==
    last.op = "contains" => (last.ok <=> last.list.types = <<>>)

\* C18: front, pop_front, back and pop_back are defined for the non-empty
\* sequences only: applied to the empty sequence each is rejected at build
\* time and yields nothing.
C18_EmptyRejected ==
    last.op \in {"front", "pop_front", "back", "pop_back"} =>
        /\ last.ok <=> last.list.types # <<>>
        /\ ~last.ok => (last.rtype = "" /\ seq = last.list)

\* back was asked of the empty sequence
C18_Witness ==
    /\ last.op = "back"
    /\ last.list.types = <<>>
    /\ ~last.ok

\* the sequence left after n applications of pop_front
RECURSIVE PopFrontN(_, _)
PopFrontN(L, n) ==
    IF n = 0 THEN [ok |-> TRUE, type |-> L]
    ELSE IF pop_front(L).ok THEN PopFrontN(pop_front(L).type, n - 1) ELSE Rejected

\* C19: at(i) over a sequence of length n is defined exactly when i < n and is
\* then entry i, the front of the sequence after i applications of pop_front.
C19_AtIndex ==
    last.op = "at" =>
        /\ last.ok <=> last.i < Len(last.list.types)
        /\ last.ok =>
              /\ last.rtype = last.list.types[last.i + 1]
              /\ PopFrontN(last.list, last.i).ok
              /\ front(PopFrontN(last.list, last.i).type)
                    = [ok |-> TRUE, type |-> last.rtype]

\* at reached an entry behind a different first entry
C19_Witness ==
    /\ last.op = "at"
    /\ last.ok
    /\ last.i >= 1
    /\ last.rtype # last.list.types[1]

\* C20: over a non-empty sequence [T0..Tn], back is Tn and pop_back is
\* [T0..Tn-1] in the original order; over a single entry, back is that entry
\* and pop_back is the empty sequence.
C20_BackPopBack ==
    /\ (last.op = "back" /\ last.list.types # <<>>) =>
          (last.ok /\ last.rtype = last.list.types[Len(last.list.types)])
    /\ (last.op = "pop_back" /\ last.list.types # <<>>) =>
          /\ last.ok
          /\ last.rlist.types = SubSeq(last.list.types, 1, Len(last.list.types) - 1)
          /\ seq = last.rlist

\* pop_back kept two different entries in their order
C20_Witness ==
    /\ last.op = "pop_back"
    /\ last.ok
    /\ Len(last.rlist.types) >= 2
    /\ last.rlist.types[1] # last.rlist.types[2]

\* the candidate the condition of the last if_ selects
Selected == IF last.cond THEN last.then_ ELSE last.else_

\* C21: if_<condition, THEN, ELSE> yields THEN when the condition is true and
\* ELSE when it is false, whatever the candidate it does not select: that
\* candidate need not be well-formed.
C21_SelectOne ==
    (last.op = "if_" /\ Selected.named) =>
        (last.ok /\ last.rtype = Selected.type)

\* what if_ does: it is built exactly when both candidates name a type, defined
\* or not, and then yields the candidate the condition selects
IfBuilt ==
    last.op = "if_" =>
        /\ last.ok <=> (last.then_.named /\ last.else_.named)
        /\ last.ok => last.rtype = Selected.type

\* C22: for every tuple type over T1..Tn, tuple_size is n and tuple_element(i)
\* is the declared type at position i for every i < n; tuple_element with
\* i >= n, any index on the empty tuple included, is rejected at build time.
C22_SizeAndElement ==
    /\ (last.op = "tuple_size" /\ last.list.tmpl = "tuple") =>
          (last.ok /\ last.value = Len(last.list.types))
    /\ (last.op = "tuple_element" /\ last.list.tmpl = "tuple") =>
          /\ last.ok <=> last.i < Len(last.list.types)
          /\ last.ok => last.rtype = last.list.types[last.i + 1]
          /\ ~last.ok => last.rtype = ""

\* tuple_element reached a declared type behind a different first one
C22_Witness ==
    /\ last.op = "tuple_element"
    /\ last.list.tmpl = "tuple"
    /\ last.ok
    /\ last.i >= 1
    /\ last.rtype # last.list.types[1]

\* ------------------------------------------------------- view properties
\* every argument of the last forward_as_tuple was an element that exists
ArgumentsExist ==
    \A k \in 1..Len(last.args) : tup[last.args[k].slot].types # <<>>

\* the view of the last forward_as_tuple: one position per argument, position
\* k - 1 an alias of argument k of the category the argument had, nothing
\* constructed
ViewOfArguments ==
    (last.op = "forward_as_tuple" /\ ArgumentsExist) =>
        /\ last.ok
        /\ tuple_size(TypeOf(view)) = [ok |-> TRUE, value |-> Len(last.args)]
        /\ \A k \in 1..Len(last.args) :
              /\ view.data[k] = Alias(last.args[k].slot, 0)
              /\ view.types[k] = ExprType(last.args[k].cfg)
        /\ Constructions(last.log) = 0
        /\ stats[metakit_tuple] = last.before

\* building a view leaves the tuples its arguments are elements of, and the
\* counters, as they were
ArgumentsKept ==
    last'.op = "forward_as_tuple" => (tup' = tup /\ stats' = stats)

\* C23: forward_as_tuple(a1..an) builds an n-element view whose position i is
\* an alias of argument i + 1, not a copy: nothing is constructed, every
\* argument is left unchanged and each alias keeps the category of its
\* argument.
C23_ViewAliases == []ViewOfArguments /\ [][ArgumentsKept]_vars

\* a view was built of a named and a temporary argument of different tuples
C23_Witness ==
    /\ last.op = "forward_as_tuple"
    /\ last.ok
    /\ Len(view.data) = 2
    /\ last.args[1].slot # last.args[2].slot
    /\ last.args[1].cfg = "non_const_lvalue"
    /\ last.args[2].cfg = "non_const_rvalue"
    /\ view.data[2] = Alias(last.args[2].slot, 0)

\* C25: get(i, t) with i at or beyond the length of t, any index on the empty
\* tuple included, is rejected at build time in every access category: it
\* reaches no level, returns no value and leaves the tuple as it was.
C25_OutOfRange ==
    (last.op \in {"get", "assign"} /\ last.i >= Len(last.pre.types)) =>
        /\ ~last.ok
        /\ last.casts = <<>>
        /\ last.op = "get" => last.value = 0
        /\ ObjOf(last.target) = last.pre

\* an index beyond the last position of a non-empty tuple was asked for
C25_Witness ==
    /\ last.op = "get"
    /\ last.target = "A"
    /\ last.cfg = "non_const_rvalue"
    /\ Len(last.pre.types) >= 1
    /\ last.i >= Len(last.pre.types)
    /\ ~last.ok

\* the arguments of the last construction up to the last one, and the last one
ElementArgs == SubSeq(last.args, 1, Len(last.args) - 1)

LastArg == last.args[Len(last.args)]

\* C26: a tuple over T1..Tn is constructed from exactly n arguments matched
\* positionally: a construction from m # n arguments, whatever they are, an
\* extra argument that is an empty tuple included, is rejected at build time
\* and produces no tuple.
C26_ExactArity ==
    (last.op = "construct_as" /\ Len(last.args) # last.i) =>
        (~last.ok /\ ~tup[last.target].live)

\* what the constructor accepts: n element arguments; or element arguments
\* and then one tuple, which initialises the base sub-aggregate that is left:
\* any tuple when n elements are already given, and otherwise a const lvalue
\* or a mutable temporary of exactly the tuple type of the missing elements
ConstructAsBuilt ==
    last.op = "construct_as" =>
        (last.ok <=>
            IF last.args # <<>> /\ IsTupleArg(LastArg)
            THEN \/ Len(ElementArgs) = last.i
                 \/ /\ Len(ElementArgs) < last.i
                    /\ Len(LastArg.tuple.types) = last.i - Len(ElementArgs)
                    /\ LastArg.cfg \in {"const_lvalue", "non_const_rvalue"}
            ELSE Len(last.args) = last.i)

\* element arguments alone are matched one to one
ElementsOnlyExact ==
    (last.op = "construct_as" /\ \A k \in 1..Len(last.args) : ~IsTupleArg(last.args[k])) =>
        (last.ok <=> Len(last.args) = last.i)

\* ------------------------------------------------ concatenation properties
\* the category of the source tuple of every element of the operands, in order
RECURSIVE SourceCfgs(_)
SourceCfgs(ops) ==
    IF ops = <<>> THEN <<>>
    ELSE [k \in 1..Len(tup[Head(ops).slot].data) |-> Head(ops).cfg] \o SourceCfgs(Tail(ops))

\* the values of the elements of the operands, in order
RECURSIVE SourceValues(_)
SourceValues(ops) ==
    IF ops = <<>> THEN <<>>
    ELSE [k \in 1..Len(tup[Head(ops).slot].data) |-> tup[Head(ops).slot].data[k].v]
         \o SourceValues(Tail(ops))

\* the element constructions of the last request
Constructed == SelectSeq(last.log, LAMBDA e : e.ev \in {"copy", "move"})

\* the result owns one element per element of the operands, each constructed
\* exactly once: copied from a named source tuple, moved from a temporary one
Materialised ==
    /\ Len(result.data) = Len(SourceCfgs(last.args))
    /\ Len(Constructed) = Len(SourceCfgs(last.args))
    /\ \A p \in 1..Len(SourceCfgs(last.args)) :
          /\ p <= Len(result.data) /\ result.data[p].own
          /\ \E j \in 1..Len(Constructed) :
                /\ Constructed[j].pos = p - 1
                /\ Constructed[j].ev =
                      IF SourceCfgs(last.args)[p] = "non_const_rvalue" THEN "move" ELSE "copy"

\* C24: tuple_cat materialises its final view into an owning tuple by
\* constructing each referenced element exactly once, copied when its source
\* tuple is named and moved when it is a temporary, decided per source tuple;
\* the result holds no alias.
C24_Materialise ==
    last.op = "tuple_cat" => (last.ok /\ Materialised)

\* what tuple_cat does where it is built: the one element there is is
\* constructed once, by the category of its source tuple
MaterialisedWhereBuilt ==
    (last.op = "tuple_cat" /\ last.ok) => Materialised

\* C27: for every k >= 1 and tuples T1..Tk, named or temporary, empty or not,
\* tuple_cat(T1..Tk) is built and yields an owning tuple of the elements of T1,
\* then T2, ..., then Tk in order; tuple_cat(A) of a single tuple equals A
\* element-wise and an empty operand contributes no element.
C27_CatFold ==
    last.op = "tuple_cat" =>
        /\ last.ok
        /\ Len(result.data) = Len(SourceValues(last.args))
        /\ \A p \in 1..Len(SourceValues(last.args)) :
              /\ p <= Len(result.data)
              /\ result.data[p] = Own(SourceValues(last.args)[p])

\* what tuple_cat yields where it is built
CatFoldWhereBuilt ==
    (last.op = "tuple_cat" /\ last.ok) =>
        result.data = [p \in 1..Len(SourceValues(last.args)) |-> Own(SourceValues(last.args)[p])]

\* C28: filter<Predicate>(t) applied to the empty tuple is built and yields the
\* empty tuple, as it does for a tuple none of whose elements satisfies
\* Predicate.
C28_FilterEmpty ==
    (last.op = "filter" /\ last.pre.types = <<>>) =>
        (last.ok /\ result = Obj(<<>>, <<>>))

\* ---------------------------------------------------- counter properties

\* C29: IndexedCopyCounter<i>::reset() returns the counters as they were before
\* the call and leaves the default constructions, copies and moves of index i
\* at zero; the counter make_copy_counter<i>() returns shows statistics that
\* are all zero; neither changes the counters of another index j.
C29_ResetAndMake ==
    [][ (last'.op \in {"counter_reset", "make_copy_counter"}) =>
            /\ stats'[last'.i] = ZeroStats
            /\ \A j \in {metakit_tuple, std_tuple} \ {last'.i} : stats'[j] = stats[j]
            /\ (last'.op = "counter_reset") => (last'.before = stats[last'.i])
            /\ (last'.op = "make_copy_counter") => (last'.before = ZeroStats) ]_vars

\* a reset of an index with every kind of construction counted, while the
\* other index has counts of its own
C29_Witness ==
    /\ last.op = "counter_reset"
    /\ last.before = CopyStats(1, 1, 1)
    /\ stats[last.i] = ZeroStats
    /\ \E j \in {metakit_tuple, std_tuple} \ {last.i} : stats[j] # ZeroStats

\* ------------------------------------------- push_back / pop_back / back

\* C30: for every sequence L of either template and every type T,
\* pop_back_t<push_back_t<L, T>> is L and back_t<push_back_t<L, T>> is T; for
\* every non-empty L, push_back_t<pop_back_t<L>, back_t<L>> is L; the
\* sequence template is part of the identity.
C30_PushPopBack ==
    /\ \A T \in Types :
           /\ pop_back_t(push_back(seq, T).type) = [ok |-> TRUE, type |-> seq]
           /\ back(push_back(seq, T).type) = has_type(T)
    /\ (seq.types # <<>>) =>
           /\ pop_back_t(seq).ok /\ back(seq).ok
           /\ push_back(pop_back_t(seq).type, back(seq).type).type = seq

\* what the code yields: the entries of L in both identities, in a type_list
\* whatever the template of L
PushPopBackEntries ==
    /\ \A T \in Types :
           /\ pop_back_t(push_back(seq, T).type) =
                  [ok |-> TRUE, type |-> List("type_list", seq.types)]
           /\ back(push_back(seq, T).type) = has_type(T)
    /\ (seq.types # <<>>) =>
           /\ pop_back_t(seq).ok /\ back(seq).ok
           /\ push_back(pop_back_t(seq).type, back(seq).type).type =
                  List("type_list", seq.types)
====
